---- MODULE Spec2Model ----
(***************************************************************************)
(* Model of the link-in-bio backend: the link store with its ordering and  *)
(* ownership checks (services/link/link_service.py,                        *)
(* repositories/link/link_repository.py, core/base_repository.py) and the  *)
(* refresh-token lifecycle (core/auth/auth_service.py,                     *)
(* repositories/auth/refresh_token_repository.py), the account endpoints   *)
(* that main.py mounts (routers/auth_router.py, deps.py), the transaction  *)
(* wrapper (db.py) and the boundary's exception middleware                 *)
(* (core/middleware/error_handler.py).                                     *)
(*                                                                         *)
(* Every action is one service call run to completion (its reads and its   *)
(* transaction).  `res` records the last call: its name, its arguments,    *)
(* the exception it raised ("ok" when none) and the value it returned.     *)
(*                                                                         *)
(* The audit columns created_at / updated_at of models.BaseModel are column*)
(* defaults filled in by the ORM and are not part of the modelled rows.    *)
(***************************************************************************)
EXTENDS Integers, Sequences, FiniteSets, TLC

VARIABLES
    users,             \* table users: id -> row
    links,             \* table links: id -> row
    next_link_id,      \* next primary key of links
    tokens,            \* table refresh_tokens: token value -> row
    next_token,        \* next fresh uuid4 value
    now,               \* datetime.utcnow(), in minutes
    res,               \* the last call and its outcome
    nops,              \* number of calls completed
    revoked_hist,      \* history: values passed to a completed revoke
    revoked_all_hist,  \* history: tokens that existed for u at a completed revokeAll(u)
    next_user_id,      \* next primary key of users
    issued,            \* the access tokens handed to clients so far
    tx,                \* the session of the reorder transaction in flight
    log,               \* the records written to the logger
    calls              \* per task: the call it is in the middle of

vars == <<users, links, next_link_id, tokens, next_token, now, res, nops,
          revoked_hist, revoked_all_hist, next_user_id, issued, tx, log, calls>>

link_vars == <<links, next_link_id, tx, calls>>
auth_vars == <<users, tokens, next_token, now, revoked_hist, revoked_all_hist,
               next_user_id, issued>>

----------------------------------------------------------------------------
(* Bounds *)

\* number of link rows the store may ever hold (ids 1..MaxLinks)
MaxLinks == 3
\* cap on click_count
MaxClicks == 2
\* number of refresh tokens ever issued
MaxTokens == 2
\* number of clock advances
MaxTicks == 2
\* number of calls in a run
MaxOps == 4

----------------------------------------------------------------------------
(* Program constants *)

\* settings.access_token_expire_minutes
ACCESS_TOKEN_EXPIRE_MINUTES == 30
\* AuthService.__init__(refresh_expire_days=7)
REFRESH_EXPIRE_DAYS == 7
\* timedelta(days=1) in minutes, the unit of `now`
MinutesPerDay == 1440
\* LinkCreate.border_radius default / `link_data.border_radius or 8`
DEFAULT_BORDER_RADIUS == 8

----------------------------------------------------------------------------
(* Values *)

\* Optional values are sequences of length at most one: None is <<>> and a
\* present value x is <<x>>
None == <<>>
Some(x) == <<x>>
\* an unused integer field of `res`
NoArg == -1
\* a primary key or token value with no row
NoRow == [row |-> "absent"]
\* no reorder transaction is open
NoTx == [pc |-> "idle"]

\* the request tasks whose steps interleave, and a task between two calls
Tasks == {1, 2}
Idle == [pc |-> "idle"]

UserIds == {1, 2}
LinkIds == 1..MaxLinks
TokenValues == 1..MaxTokens
\* a refresh-token string that was never issued (uuid4 values are fresh)
BogusToken == 0
Titles == {"A", "B"}
\* the title given at creation (other titles come from updates)
CreateTitles == {"A"}

Username(u) == IF u = 1 THEN "alice" ELSE "bob"
Email(u) == IF u = 1 THEN "alice@x.io" ELSE "bob@x.io"

SecretKey == "secret_key"
\* settings.algorithm
ALGORITHM == "HS256"

\* the record `res` of a call; unused fields are NoArg (integers) or None
Res(op, user, link, ids, token, err, ret) ==
    [op |-> op, user |-> user, link |-> link, ids |-> ids, token |-> token,
     err |-> err, ret |-> ret]

\* the record `res` of a call whose arguments are given as a record
Call(op, args, err, ret) == [op |-> op, args |-> args, err |-> err, ret |-> ret]

\* the record of a call that also carries the request body of an update
WithPatch(r, patch) ==
    [f \in DOMAIN r \cup {"patch"} |-> IF f = "patch" THEN patch ELSE r[f]]

\* one more call, while the run is shorter than MaxOps
Step == nops < MaxOps /\ nops' = nops + 1

----------------------------------------------------------------------------
(* Link store: pure helpers *)

Exists(L, l) == l \in LinkIds /\ L[l] # NoRow

\* all one-to-one sequences enumerating the set S
Perms(S) ==
    {s \in [1..Cardinality(S) -> S] : \A i, j \in 1..Cardinality(S) : i # j => s[i] # s[j]}

LinkRowsOfUser_InvertedFlag(L, user_id, include_inactive) ==
    {l \in LinkIds : /\ L[l] # NoRow
                     /\ L[l].user_id = user_id
                     /\ (~include_inactive \/ L[l].is_active)
                     /\ ~L[l].is_deleted}

\* LinkRepository.get_links_by_user: the rows selected by the query
LinkRowsOfUser(L, user_id, include_inactive) ==
    {l \in LinkIds : /\ L[l] # NoRow
                     /\ L[l].user_id = user_id
                     /\ (include_inactive \/ L[l].is_active)
                     /\ ~L[l].is_deleted}

\* LinkRepository.get_links_by_user: every result list the ORDER BY
\* order_index ASC admits (rows with equal order_index come in any order)
get_links_by_user(L, user_id, include_inactive) ==
    {s \in Perms(LinkRowsOfUser(L, user_id, include_inactive)) :
        \A i \in 1..(Len(s) - 1) : L[s[i]].order_index <= L[s[i + 1]].order_index}

SetMax(S) == CHOOSE m \in S : \A x \in S : x <= m

get_max_order_for_user_AnyUser(L, user_id) ==
    LET S == {L[l].order_index : l \in {k \in LinkIds : L[k] # NoRow /\ ~L[k].is_deleted}}
    IN IF S = {} THEN None ELSE Some(SetMax(S))

\* LinkRepository.get_max_order_for_user: SELECT max(order_index) over the
\* user's rows with is_deleted = False; NULL (None) when there are none
get_max_order_for_user(L, user_id) ==
    LET S == {L[l].order_index : l \in {k \in LinkIds : /\ L[k] # NoRow
                                                       /\ L[k].user_id = user_id
                                                       /\ ~L[k].is_deleted}}
    IN IF S = {} THEN None ELSE Some(SetMax(S))

NewOrderIndex_CountPlusOne(L, user_id) ==
    Cardinality({l \in LinkIds : L[l] # NoRow /\ L[l].user_id = user_id /\ ~L[l].is_deleted}) + 1

NewOrderIndex_NoIncrement(L, user_id) ==
    LET max_order == get_max_order_for_user(L, user_id)
    IN IF max_order = None THEN 0 ELSE max_order[1]

\* LinkService.create_link: order_index = (max_order or 0) + 1
NewOrderIndex(L, user_id) ==
    LET max_order == get_max_order_for_user(L, user_id)
    IN (IF max_order = None THEN 0 ELSE max_order[1]) + 1

get_link_by_id_NoOwnerCheck(L, link_id, user_id) ==
    IF ~Exists(L, link_id) THEN "NotFound" ELSE "ok"

get_link_by_id_OwnerFirst(L, link_id, user_id) ==
    IF Exists(L, link_id) /\ L[link_id].user_id = user_id THEN "ok"
    ELSE "PermissionDenied"

\* LinkService.get_link_by_id: the exception raised, "ok" when the link is
\* returned
get_link_by_id(L, link_id, user_id) ==
    IF ~Exists(L, link_id) THEN "NotFound"
    ELSE IF L[link_id].user_id # user_id THEN "PermissionDenied"
    ELSE "ok"

\* the fields of LinkUpdate that are modelled
PatchFields == {"title", "is_active"}

\* LinkUpdate: each field is unset (None), set to a value, or set to null
\* (every field is Optional, so the body {"title": null} validates); nulls
\* names the fields set to null
Patches ==
    {p \in [title : {None} \cup {Some(t) : t \in Titles},
            is_active : {None} \cup {Some(b) : b \in BOOLEAN},
            nulls : SUBSET PatchFields] :
        \A f \in p.nulls : p[f] = None}

\* link_data.model_dump(exclude_unset=True): the keys that were set
update_data(patch) == {f \in PatchFields : patch[f] # None} \cup patch.nulls

\* the request bodies explored together with every other link operation: an
\* empty one, one field set, one field null
PatchInputs ==
    {p \in Patches : /\ p.title \in {None, Some("B")}
                     /\ p.is_active \in {None, Some(FALSE)}
                     /\ p.nulls \subseteq {"title"}
                     /\ Cardinality(update_data(p)) <= 1}

\* links.title and links.is_active are nullable=False: the flush of a row
\* holding None in one of them raises IntegrityError
violates_not_null(patch) == patch.nulls # {}

apply_patch_ResetsUnset(row, patch) ==
    [f \in DOMAIN row |->
        IF f \in PatchFields /\ patch[f] # None THEN patch[f][1]
        ELSE IF f = "is_active" THEN TRUE ELSE row[f]]

\* LinkService.update_link: for key, value in update_data.items(): setattr
apply_patch(row, patch) ==
    [f \in DOMAIN row |->
        IF f \in update_data(patch) /\ patch[f] # None THEN patch[f][1] ELSE row[f]]

\* LinkReorderRequest.validate_link_ids: non-empty and duplicate-free
validate_link_ids(ids) ==
    /\ Len(ids) # 0
    /\ Cardinality({ids[i] : i \in 1..Len(ids)}) = Len(ids)

\* every list the request body can carry past the validator
ReorderRequests ==
    {ids \in UNION {[1..n -> LinkIds] : n \in 0..MaxLinks} : validate_link_ids(ids)}

\* the link ids a client names: the ids issued so far and, while there is
\* one, the first id that was never issued (it stands for every id without a
\* row)
LinkInputs(next_id) == {l \in LinkIds : l <= next_id}

\* the reorder requests over those ids
ReorderInputs ==
    [n \in 1..(MaxLinks + 1) |->
        {ids \in ReorderRequests : \A i \in 1..Len(ids) : ids[i] <= n}]

SeqToSet(ids) == {ids[i] : i \in 1..Len(ids)}

ids_match_Subset(L, user_id, ids) ==
    SeqToSet(ids) \subseteq LinkRowsOfUser(L, user_id, TRUE)

\* LinkService.reorder_links: user_link_ids == request_link_ids
ids_match(L, user_id, ids) ==
    LinkRowsOfUser(L, user_id, TRUE) = SeqToSet(ids)

update_link_orders_ZeroBased(L, user_id, ids) ==
    [l \in LinkIds |->
        IF L[l] # NoRow /\ L[l].user_id = user_id /\ l \in SeqToSet(ids)
        THEN [L[l] EXCEPT !.order_index =
                 (CHOOSE i \in 1..Len(ids) : ids[i] = l /\ \A j \in (i + 1)..Len(ids) : ids[j] # l) - 1]
        ELSE L[l]]

\* LinkRepository.update_link_orders: for index, link_id in enumerate(ids):
\* UPDATE links SET order_index = index + 1 WHERE id = link_id AND user_id =
\* user_id (enumerate is 0-based, sequences here 1-based; the last write to a
\* row wins)
update_link_orders(L, user_id, ids) ==
    [l \in LinkIds |->
        IF L[l] # NoRow /\ L[l].user_id = user_id /\ l \in SeqToSet(ids)
        THEN [L[l] EXCEPT !.order_index =
                 CHOOSE i \in 1..Len(ids) : ids[i] = l /\ \A j \in (i + 1)..Len(ids) : ids[j] # l]
        ELSE L[l]]

toggled_Deactivate(row) == [row EXCEPT !.is_active = FALSE]

\* LinkService.toggle_link_status: link.is_active = not link.is_active
toggled(row) == [row EXCEPT !.is_active = ~@]

clicked_Twice(row) == [row EXCEPT !.click_count = @ + 2]

\* LinkService.increment_click_count: link.click_count += 1
clicked(row) == [row EXCEPT !.click_count = @ + 1]

\* position of x in the duplicate-free sequence s
IndexOf(s, x) == CHOOSE i \in 1..Len(s) : s[i] = x

sorted_by_clicks_AscendingReversed(L, listing) ==
    LET before(x, y) == \/ L[x].click_count > L[y].click_count
                        \/ /\ L[x].click_count = L[y].click_count
                           /\ IndexOf(listing, x) > IndexOf(listing, y)
        rank(y) == Cardinality({x \in SeqToSet(listing) : before(x, y)}) + 1
    IN [i \in 1..Len(listing) |-> CHOOSE y \in SeqToSet(listing) : rank(y) = i]

\* sorted(links, key=lambda x: x.click_count, reverse=True): the sort is
\* stable, so an element comes before another when its click_count is larger,
\* or equal and it came first in `links`
sorted_by_clicks(L, listing) ==
    LET before(x, y) == \/ L[x].click_count > L[y].click_count
                        \/ /\ L[x].click_count = L[y].click_count
                           /\ IndexOf(listing, x) < IndexOf(listing, y)
        rank(y) == Cardinality({x \in SeqToSet(listing) : before(x, y)}) + 1
    IN [i \in 1..Len(listing) |-> CHOOSE y \in SeqToSet(listing) : rank(y) = i]

\* sum(link.click_count for link in links)
RECURSIVE sum_click_count(_, _)
sum_click_count(L, listing) ==
    IF listing = <<>> THEN 0
    ELSE L[Head(listing)].click_count + sum_click_count(L, Tail(listing))

\* LinkService.get_user_analytics: the dict built from the listing
analytics_of(L, listing) ==
    [total_links |-> Len(listing),
     active_links |-> Len(SelectSeq(listing, LAMBDA l : L[l].is_active)),
     total_clicks |-> sum_click_count(L, listing),
     links |-> [i \in 1..Len(listing) |->
                  LET l == sorted_by_clicks(L, listing)[i]
                  IN [id |-> l, title |-> L[l].title, click_count |-> L[l].click_count,
                      is_active |-> L[l].is_active]]]

----------------------------------------------------------------------------
(* Link store: operations *)

\* LinkService.create_link: the Link object it builds; click_count and
\* is_deleted take the column defaults
new_link(user_id, title, is_active, order_index) ==
    [user_id |-> user_id,
     title |-> title,
     border_radius |-> DEFAULT_BORDER_RADIUS,
     is_active |-> IF is_active # None THEN is_active[1] ELSE TRUE,
     click_count |-> 0,
     order_index |-> order_index,
     is_deleted |-> FALSE]

\* LinkService.create_link + BaseRepository.create
create_link(user_id, title, is_active) ==
    /\ Step
    /\ next_link_id <= MaxLinks
    /\ LET link == new_link(user_id, title, is_active, NewOrderIndex(links, user_id))
       IN /\ links' = [links EXCEPT ![next_link_id] = link]
          /\ res' = Res("create_link", user_id, NoArg, None, NoArg, "ok", next_link_id)
    /\ next_link_id' = next_link_id + 1
    /\ UNCHANGED <<auth_vars, tx, log, calls>>

\* LinkService.update_link + BaseRepository.update; a null in a NOT NULL
\* column fails the flush and the transaction rolls back
update_link(link_id, user_id, patch) ==
    /\ Step
    /\ LET err == get_link_by_id(links, link_id, user_id)
       IN IF err # "ok"
          THEN /\ res' = WithPatch(Res("update_link", user_id, link_id, None, NoArg, err, None),
                                   patch)
               /\ UNCHANGED links
          ELSE IF violates_not_null(patch)
          THEN /\ res' = WithPatch(Res("update_link", user_id, link_id, None, NoArg,
                                       "Database", None), patch)
               /\ UNCHANGED links
          ELSE /\ links' = [links EXCEPT ![link_id] = apply_patch(@, patch)]
               /\ res' = WithPatch(Res("update_link", user_id, link_id, None, NoArg, "ok",
                                       link_id), patch)
    /\ UNCHANGED <<next_link_id, auth_vars, tx, log, calls>>

\* LinkService.delete_link + BaseRepository.delete (session.delete: the row
\* is removed)
delete_link(link_id, user_id) ==
    /\ Step
    /\ LET err == get_link_by_id(links, link_id, user_id)
       IN IF err # "ok"
          THEN /\ res' = Res("delete_link", user_id, link_id, None, NoArg, err, None)
               /\ UNCHANGED links
          ELSE /\ links' = [links EXCEPT ![link_id] = NoRow]
               /\ res' = Res("delete_link", user_id, link_id, None, NoArg, "ok", None)
    /\ UNCHANGED <<next_link_id, auth_vars, tx, log, calls>>

\* LinkService.toggle_link_status
toggle_link_status(link_id, user_id) ==
    /\ Step
    /\ LET err == get_link_by_id(links, link_id, user_id)
       IN IF err # "ok"
          THEN /\ res' = Res("toggle_link_status", user_id, link_id, None, NoArg, err, None)
               /\ UNCHANGED links
          ELSE /\ links' = [links EXCEPT ![link_id] = toggled(@)]
               /\ res' = Res("toggle_link_status", user_id, link_id, None, NoArg, "ok", link_id)
    /\ UNCHANGED <<next_link_id, auth_vars, tx, log, calls>>

\* LinkService.reorder_links; the request has passed LinkReorderRequest
reorder_links(user_id, ids) ==
    /\ Step
    /\ validate_link_ids(ids)
    /\ IF ~ids_match(links, user_id, ids)
       THEN /\ res' = Res("reorder_links", user_id, NoArg, ids, NoArg, "PermissionDenied", None)
            /\ UNCHANGED links
       ELSE /\ links' = update_link_orders(links, user_id, ids)
            /\ \E listing \in get_links_by_user(links', user_id, TRUE) :
                  res' = Res("reorder_links", user_id, NoArg, ids, NoArg, "ok", listing)
    /\ UNCHANGED <<next_link_id, auth_vars, tx, log, calls>>

\* LinkService.increment_click_count (no requester)
increment_click_count(link_id) ==
    /\ Step
    /\ IF ~Exists(links, link_id)
       THEN /\ res' = Res("increment_click_count", NoArg, link_id, None, NoArg, "NotFound", None)
            /\ UNCHANGED links
       ELSE /\ links[link_id].click_count < MaxClicks
            /\ links' = [links EXCEPT ![link_id] = clicked(@)]
            /\ res' = Res("increment_click_count", NoArg, link_id, None, NoArg, "ok", link_id)
    /\ UNCHANGED <<next_link_id, auth_vars, tx, log, calls>>

\* LinkService.get_user_links: reads only
get_user_links(user_id, include_inactive) ==
    /\ Step
    /\ \E listing \in get_links_by_user(links, user_id, include_inactive) :
          res' = Call("get_user_links",
                      [user_id |-> user_id, include_inactive |-> include_inactive],
                      "ok", listing)
    /\ UNCHANGED <<links, next_link_id, auth_vars, tx, log, calls>>

\* LinkService.get_user_analytics: reads only
get_user_analytics(user_id) ==
    /\ Step
    /\ \E listing \in get_links_by_user(links, user_id, TRUE) :
          res' = Call("get_user_analytics", [user_id |-> user_id], "ok",
                      analytics_of(links, listing))
    /\ UNCHANGED <<links, next_link_id, auth_vars, tx, log, calls>>

----------------------------------------------------------------------------
(* reorder_links step by step: the check, the UPDATEs of update_link_orders *)
(* inside run_in_transaction, the commit or the rollback, the final read    *)

\* the UPDATE statements executed in the open session and not yet committed:
\* link id -> the order_index written, 0 for a row not written
NoWrites == [l \in LinkIds |-> 0]

\* a row written in the open transaction stays locked until it ends: the
\* write of another session to it waits
RowLocked(l) == tx.pc = "writing" /\ tx.writes[l] # 0

\* LinkService.reorder_links up to the call of update_link_orders: the
\* listing is read in a session of its own
reorder_check(user_id, ids) ==
    /\ Step
    /\ tx = NoTx
    /\ validate_link_ids(ids)
    /\ IF ~ids_match(links, user_id, ids)
       THEN /\ res' = Res("reorder_links", user_id, NoArg, ids, NoArg, "PermissionDenied", None)
            /\ UNCHANGED tx
       ELSE /\ tx' = [pc |-> "writing", user_id |-> user_id, ids |-> ids, i |-> 1,
                      user_links |-> [l \in SeqToSet(ids) |-> links[l].order_index],
                      writes |-> NoWrites]
            /\ UNCHANGED res
    /\ UNCHANGED <<links, next_link_id, auth_vars, log, calls>>

reorder_write_Autocommit ==
    /\ tx.pc = "writing"
    /\ tx.i <= Len(tx.ids)
    /\ LET link_id == tx.ids[tx.i]
       IN /\ links' = IF links[link_id] # NoRow /\ links[link_id].user_id = tx.user_id
                      THEN [links EXCEPT ![link_id].order_index = tx.i] ELSE links
          /\ tx' = [tx EXCEPT !.i = @ + 1]
    /\ UNCHANGED <<next_link_id, auth_vars, res, nops, log, calls>>

\* LinkRepository.update_link_orders: one pass of the loop, the UPDATE for
\* ordered_link_ids[index] executed in the session (not committed)
reorder_write ==
    /\ tx.pc = "writing"
    /\ tx.i <= Len(tx.ids)
    /\ LET link_id == tx.ids[tx.i]
       IN tx' = [tx EXCEPT !.i = @ + 1,
                           !.writes = IF links[link_id] # NoRow /\ links[link_id].user_id = tx.user_id
                                      THEN [@ EXCEPT ![link_id] = tx.i] ELSE @]
    /\ UNCHANGED <<links, next_link_id, auth_vars, res, nops, log, calls>>

\* run_in_transaction: `await session.commit()` after the loop and the flush
reorder_commit ==
    /\ tx.pc = "writing"
    /\ tx.i > Len(tx.ids)
    /\ links' = [l \in LinkIds |->
                    IF tx.writes[l] # 0 THEN [links[l] EXCEPT !.order_index = tx.writes[l]]
                    ELSE links[l]]
    /\ tx' = [tx EXCEPT !.pc = "committed"]
    /\ UNCHANGED <<next_link_id, auth_vars, res, nops, log, calls>>

\* run_in_transaction: a statement, the flush or the commit raises;
\* `await session.rollback()` and the exception reaches the boundary
reorder_rollback ==
    /\ tx.pc = "writing"
    /\ tx' = NoTx
    /\ res' = Res("reorder_links", tx.user_id, NoArg, tx.ids, NoArg, "Database", None)
    /\ UNCHANGED <<links, next_link_id, auth_vars, nops, log, calls>>

\* LinkService.reorder_links: the listing read after the commit and returned
reorder_return ==
    /\ tx.pc = "committed"
    /\ \E listing \in get_links_by_user(links, tx.user_id, TRUE) :
          res' = Res("reorder_links", tx.user_id, NoArg, tx.ids, NoArg, "ok", listing)
    /\ tx' = NoTx
    /\ UNCHANGED <<links, next_link_id, auth_vars, nops, log, calls>>

----------------------------------------------------------------------------
(* Link store: create and click, one store interaction at a time *)

\* the tasks that are inside create_link, between its SELECT and its INSERT
creating == {p \in Tasks : calls[p].pc = "create_link"}

\* LinkService.create_link up to the construction of the Link object:
\* get_max_order_for_user runs in a session of its own and the task keeps
\* order_index = (max_order or 0) + 1
create_read(p, user_id, title) ==
    /\ Step
    /\ calls[p] = Idle
    /\ next_link_id + Cardinality(creating) <= MaxLinks
    /\ calls' = [calls EXCEPT ![p] = [pc |-> "create_link", user_id |-> user_id,
                                      title |-> title,
                                      order_index |-> NewOrderIndex(links, user_id)]]
    /\ UNCHANGED <<links, next_link_id, res, auth_vars, tx, log>>

create_insert_RereadsMax(p) ==
    /\ calls[p].pc = "create_link"
    /\ LET c == calls[p]
       IN /\ links' = [links EXCEPT ![next_link_id] =
                          new_link(c.user_id, c.title, None, NewOrderIndex(links, c.user_id))]
          /\ res' = Res("create_link", c.user_id, NoArg, None, NoArg, "ok", next_link_id)
    /\ next_link_id' = next_link_id + 1
    /\ calls' = [calls EXCEPT ![p] = Idle]
    /\ UNCHANGED <<nops, auth_vars, tx, log>>

\* LinkRepository.create_link (BaseRepository.create in run_in_transaction):
\* the INSERT of the Link object built from the earlier read; links has no
\* constraint on order_index
create_insert(p) ==
    /\ calls[p].pc = "create_link"
    /\ LET c == calls[p]
       IN /\ links' = [links EXCEPT ![next_link_id] =
                          new_link(c.user_id, c.title, None, c.order_index)]
          /\ res' = Res("create_link", c.user_id, NoArg, None, NoArg, "ok", next_link_id)
    /\ next_link_id' = next_link_id + 1
    /\ calls' = [calls EXCEPT ![p] = Idle]
    /\ UNCHANGED <<nops, auth_vars, tx, log>>

\* LinkService.increment_click_count up to link.click_count += 1:
\* get_by_id runs in a session of its own and the task keeps the loaded row
click_read(p, link_id) ==
    /\ Step
    /\ calls[p] = Idle
    /\ IF ~Exists(links, link_id)
       THEN /\ res' = Res("increment_click_count", NoArg, link_id, None, NoArg, "NotFound", None)
            /\ UNCHANGED calls
       ELSE /\ links[link_id].click_count < MaxClicks
            /\ calls' = [calls EXCEPT ![p] = [pc |-> "increment_click_count",
                                              link_id |-> link_id,
                                              link |-> clicked(links[link_id])]]
            /\ UNCHANGED res
    /\ UNCHANGED <<links, next_link_id, auth_vars, tx, log>>

\* LinkRepository.update_link (BaseRepository.update in run_in_transaction):
\* the flush writes the attribute the task changed, UPDATE links SET
\* click_count = <the task's value> WHERE id = link_id; when the row is gone
\* the UPDATE matches nothing, the flush raises and the call ends in the
\* database error
click_write(p) ==
    /\ calls[p].pc = "increment_click_count"
    /\ LET c == calls[p]
       IN IF ~Exists(links, c.link_id)
          THEN /\ res' = Res("increment_click_count", NoArg, c.link_id, None, NoArg,
                             "Database", None)
               /\ UNCHANGED links
          ELSE /\ links' = [links EXCEPT ![c.link_id].click_count = c.link.click_count]
               /\ res' = Res("increment_click_count", NoArg, c.link_id, None, NoArg, "ok",
                             c.link_id)
    /\ calls' = [calls EXCEPT ![p] = Idle]
    /\ UNCHANGED <<nops, next_link_id, auth_vars, tx, log>>

----------------------------------------------------------------------------
(* Auth session manager: pure helpers *)

\* timedelta(days=self.refresh_expire_days), in minutes
RefreshLifetime == REFRESH_EXPIRE_DAYS * MinutesPerDay

\* AuthService.create_access_token: the signed claim set; the caller's data
\* plus exp = utcnow() + expire_minutes, signed with the configured key
create_access_token(data, clock) ==
    [sub |-> data.sub, exp |-> clock + ACCESS_TOKEN_EXPIRE_MINUTES, key |-> SecretKey,
     alg |-> ALGORITHM]

new_refresh_token_ShortLived(user_id, clock) ==
    [user_id |-> user_id, expires_at |-> clock + ACCESS_TOKEN_EXPIRE_MINUTES, is_revoked |-> FALSE]

\* AuthService.create_tokens: the RefreshToken row it persists
new_refresh_token(user_id, clock) ==
    [user_id |-> user_id, expires_at |-> clock + RefreshLifetime, is_revoked |-> FALSE]

get_valid_token_IgnoreRevoked(T, value, clock) ==
    IF value \in TokenValues /\ T[value] # NoRow /\ T[value].expires_at > clock
    THEN Some(T[value]) ELSE None

get_valid_token_Inclusive(T, value, clock) ==
    IF value \in TokenValues /\ T[value] # NoRow /\ ~T[value].is_revoked
       /\ T[value].expires_at >= clock
    THEN Some(T[value]) ELSE None

\* RefreshTokenRepository.get_valid_token: the row with token = value,
\* is_revoked = False and expires_at > utcnow(), or None
get_valid_token(T, value, clock) ==
    IF value \in TokenValues /\ T[value] # NoRow /\ ~T[value].is_revoked
       /\ T[value].expires_at > clock
    THEN Some(T[value]) ELSE None

\* BaseRepository.get_by_id on users
get_user_by_id(U, user_id) ==
    IF user_id \in UserIds /\ U[user_id] # NoRow THEN Some(U[user_id]) ELSE None

\* AuthService.refresh_access_token: the exception raised and the access
\* token returned
refresh_result(T, U, value, clock) ==
    LET refresh_token == get_valid_token(T, value, clock)
    IN IF refresh_token = None
       THEN [err |-> "Unauthorized", ret |-> None]
       ELSE LET user == get_user_by_id(U, refresh_token[1].user_id)
            IN IF user = None
               THEN [err |-> "Unauthorized", ret |-> None]
               ELSE [err |-> "ok",
                     ret |-> Some(create_access_token([sub |-> user[1].username], clock))]

revoke_token_Toggle(T, value) ==
    [t \in TokenValues |->
        IF T[t] # NoRow /\ t = value THEN [T[t] EXCEPT !.is_revoked = ~T[t].is_revoked] ELSE T[t]]

\* RefreshTokenRepository.revoke_token: UPDATE refresh_tokens SET
\* is_revoked = True WHERE token = value
revoke_token(T, value) ==
    [t \in TokenValues |->
        IF T[t] # NoRow /\ t = value THEN [T[t] EXCEPT !.is_revoked = TRUE] ELSE T[t]]

revoke_all_rows_EveryUser(T, user_id) ==
    [t \in TokenValues |->
        IF T[t] # NoRow /\ ~T[t].is_revoked
        THEN [T[t] EXCEPT !.is_revoked = TRUE] ELSE T[t]]

\* RefreshTokenRepository.revoke_all_user_tokens: UPDATE refresh_tokens SET
\* is_revoked = True WHERE user_id = user_id AND is_revoked = False
revoke_all_rows(T, user_id) ==
    [t \in TokenValues |->
        IF T[t] # NoRow /\ T[t].user_id = user_id /\ ~T[t].is_revoked
        THEN [T[t] EXCEPT !.is_revoked = TRUE] ELSE T[t]]

\* the refresh-token strings a client can present: the issued ones and a
\* string that was never issued
TokenInputs == {BogusToken} \cup {t \in TokenValues : t < next_token}

\* the advances of the clock that are explored: one access-token lifetime and
\* one refresh-token lifetime
TickSteps == {ACCESS_TOKEN_EXPIRE_MINUTES, RefreshLifetime}

\* number of advances that led to `clock`
TickCount(clock) ==
    (clock \div RefreshLifetime) + ((clock % RefreshLifetime) \div ACCESS_TOKEN_EXPIRE_MINUTES)

----------------------------------------------------------------------------
(* Auth session manager: operations *)

refresh_access_token_Rotating(value) ==
    /\ Step
    /\ LET r == refresh_result(tokens, users, value, now)
       IN /\ res' = Res("refresh_access_token", NoArg, NoArg, None, value, r.err, r.ret)
          /\ tokens' = IF r.err = "ok" THEN revoke_token(tokens, value) ELSE tokens
    /\ UNCHANGED <<users, next_token, now, revoked_hist, revoked_all_hist, link_vars, next_user_id, issued, log>>

\* AuthService.create_tokens (v1 login, after authenticate_user returned the
\* user): issues the access token and persists one refresh token
create_tokens(user_id) ==
    /\ Step
    /\ users[user_id] # NoRow
    /\ next_token <= MaxTokens
    /\ LET access_token == create_access_token([sub |-> users[user_id].username], now)
           refresh_token_value == next_token
       IN /\ tokens' = [tokens EXCEPT ![refresh_token_value] = new_refresh_token(user_id, now)]
          /\ res' = Res("create_tokens", user_id, NoArg, None, NoArg, "ok",
                        [access_token |-> access_token, refresh_token |-> refresh_token_value])
          /\ issued' = issued \cup {access_token}
    /\ next_token' = next_token + 1
    /\ UNCHANGED <<users, now, revoked_hist, revoked_all_hist, link_vars, next_user_id, log>>

\* AuthService.refresh_access_token: reads only
refresh_access_token(value) ==
    /\ Step
    /\ LET r == refresh_result(tokens, users, value, now)
       IN /\ res' = Res("refresh_access_token", NoArg, NoArg, None, value, r.err, r.ret)
          /\ issued' = IF r.err = "ok" THEN issued \cup {r.ret[1]} ELSE issued
    /\ UNCHANGED <<users, tokens, next_token, now, revoked_hist, revoked_all_hist, link_vars, next_user_id, log>>

\* AuthService.refresh_access_token up to the end of its first await:
\* get_valid_token runs in a session of its own and the task keeps the row
refresh_lookup(p, value) ==
    /\ Step
    /\ calls[p] = Idle
    /\ LET refresh_token == get_valid_token(tokens, value, now)
       IN IF refresh_token = None
          THEN /\ res' = Res("refresh_access_token", NoArg, NoArg, None, value,
                             "Unauthorized", None)
               /\ UNCHANGED calls
          ELSE /\ calls' = [calls EXCEPT ![p] = [pc |-> "refresh_access_token",
                                                 value |-> value,
                                                 refresh_token |-> refresh_token[1]]]
               /\ UNCHANGED res
    /\ UNCHANGED <<users, tokens, next_token, now, revoked_hist, revoked_all_hist,
                   next_user_id, issued, links, next_link_id, tx, log>>

refresh_issue_Revalidates(p) ==
    /\ calls[p].pc = "refresh_access_token"
    /\ LET r == refresh_result(tokens, users, calls[p].value, now)
       IN /\ res' = Res("refresh_access_token", NoArg, NoArg, None, calls[p].value,
                        r.err, r.ret)
          /\ issued' = IF r.err = "ok" THEN issued \cup {r.ret[1]} ELSE issued
    /\ calls' = [calls EXCEPT ![p] = Idle]
    /\ UNCHANGED <<nops, users, tokens, next_token, now, revoked_hist, revoked_all_hist,
                   next_user_id, links, next_link_id, tx, log>>

\* AuthService.refresh_access_token from its second await on: get_by_id of
\* the owner named by the row read earlier, then create_access_token and
\* return; refresh_tokens is not read again
refresh_issue(p) ==
    /\ calls[p].pc = "refresh_access_token"
    /\ LET c == calls[p]
           user == get_user_by_id(users, c.refresh_token.user_id)
       IN IF user = None
          THEN /\ res' = Res("refresh_access_token", NoArg, NoArg, None, c.value,
                             "Unauthorized", None)
               /\ UNCHANGED issued
          ELSE LET access_token == create_access_token([sub |-> user[1].username], now)
               IN /\ res' = Res("refresh_access_token", NoArg, NoArg, None, c.value,
                                "ok", Some(access_token))
                  /\ issued' = issued \cup {access_token}
    /\ calls' = [calls EXCEPT ![p] = Idle]
    /\ UNCHANGED <<nops, users, tokens, next_token, now, revoked_hist, revoked_all_hist,
                   next_user_id, links, next_link_id, tx, log>>

\* AuthService.revoke_refresh_token
revoke_refresh_token(value) ==
    /\ Step
    /\ tokens' = revoke_token(tokens, value)
    /\ res' = Res("revoke_refresh_token", NoArg, NoArg, None, value, "ok", None)
    /\ revoked_hist' = revoked_hist \cup {value}
    /\ UNCHANGED <<users, next_token, now, revoked_all_hist, link_vars, next_user_id, issued, log>>

\* AuthService.revoke_all_user_tokens (v1 logout passes current_user.id)
revoke_all_user_tokens(user_id) ==
    /\ Step
    /\ tokens' = revoke_all_rows(tokens, user_id)
    /\ res' = Res("revoke_all_user_tokens", user_id, NoArg, None, NoArg, "ok", None)
    /\ revoked_all_hist' = revoked_all_hist \cup
          {t \in TokenValues : tokens[t] # NoRow /\ tokens[t].user_id = user_id}
    /\ UNCHANGED <<users, next_token, now, revoked_hist, link_vars, next_user_id, issued, log>>

\* UserRepository.delete_user (session.delete).  User.links cascades in the
\* ORM; refresh_tokens.user_id is ON DELETE CASCADE in the schema, which the
\* store applies or not depending on whether it enforces foreign keys.
delete_user(user_id, fk_cascade) ==
    /\ Step
    /\ users[user_id] # NoRow
    /\ users' = [users EXCEPT ![user_id] = NoRow]
    /\ links' = [l \in LinkIds |->
                    IF links[l] # NoRow /\ links[l].user_id = user_id THEN NoRow ELSE links[l]]
    /\ tokens' = [t \in TokenValues |->
                    IF fk_cascade /\ tokens[t] # NoRow /\ tokens[t].user_id = user_id
                    THEN NoRow ELSE tokens[t]]
    /\ res' = Res("delete_user", user_id, NoArg, None, NoArg, "ok", None)
    /\ UNCHANGED <<next_link_id, next_token, now, revoked_hist, revoked_all_hist,
                   next_user_id, issued, tx, log, calls>>

\* time passes
Tick(d) ==
    /\ Step
    /\ TickCount(now) < MaxTicks
    /\ now' = now + d
    /\ res' = Res("tick", NoArg, NoArg, None, NoArg, "ok", None)
    /\ UNCHANGED <<users, tokens, next_token, revoked_hist, revoked_all_hist, link_vars, next_user_id, issued, log>>

----------------------------------------------------------------------------
(* Accounts: registration, login and access-token verification *)

\* the usernames a registration request carries, as typed by the client
RawUsernames == {"Carol", "carol", "dave", "Admin", "#bad"}
RawEmails == {"carol@x.io", "dave@x.io"}
Passwords == {"pw1", "pw2"}
\* the salt CryptContext draws when it hashes
Salts == {"salt1"}

\* str.lower
lower(s) ==
    CASE s = "Carol" -> "carol"
      [] s = "Admin" -> "admin"
      [] OTHER -> s

\* UserCreateMinimal.validate_username: the names it refuses
reserved == {"admin", "api", "www", "mail", "support", "help", "about", "contact",
             "blog", "news"}

\* re.match(r'^[a-zA-Z0-9_.-]+', username)
matches_username_pattern(username) == username # "#bad"

\* UserCreateMinimal.validate_username: None when it raises ValueError, else
\* the value the model keeps (username.lower())
validate_username(username) ==
    IF ~matches_username_pattern(username) \/ lower(username) \in reserved
    THEN None ELSE Some(lower(username))

\* CryptContext(schemes=["bcrypt"]).hash
hash_password(password, salt) == [salt |-> salt, digest |-> <<salt, password>>]

\* CryptContext.verify
verify_password(plain_password, hashed_password) ==
    hashed_password.digest = <<hashed_password.salt, plain_password>>

\* UserRepository.get_by_username: SELECT ... WHERE username = :username
get_by_username(U, username) ==
    LET S == {u \in UserIds : U[u] # NoRow /\ U[u].username = username}
    IN IF S = {} THEN None ELSE Some(CHOOSE u \in S : TRUE)

\* UserRepository.get_by_email: SELECT ... WHERE email = :email
get_by_email(U, email) ==
    LET S == {u \in UserIds : U[u] # NoRow /\ U[u].email = email}
    IN IF S = {} THEN None ELSE Some(CHOOSE u \in S : TRUE)

violates_unique_EmailOnly(U, row) ==
    \E u \in UserIds : U[u] # NoRow /\ U[u].email = row.email

\* models.User: username and email are unique=True; an INSERT that repeats
\* one raises IntegrityError
violates_unique(U, row) ==
    \E u \in UserIds : U[u] # NoRow /\ (U[u].username = row.username \/ U[u].email = row.email)

\* the body of a 401 raised by verify_token and get_current_user
Http401(detail) == [status_code |-> 401, detail |-> detail]

\* a bearer string that is not three base64 segments
Garbage == [raw |-> "garbage"]

jwt_decode_IgnoreExp(token, key, algorithm, clock) ==
    IF "key" \notin DOMAIN token THEN [err |-> "DecodeError"]
    ELSE IF token.alg # algorithm THEN [err |-> "InvalidAlgorithmError"]
    ELSE IF token.key # key THEN [err |-> "InvalidSignatureError"]
    ELSE [err |-> "ok", payload |-> [f \in DOMAIN token \ {"key", "alg"} |-> token[f]]]

\* jwt.decode(token, key, algorithms=[algorithm]): the PyJWTError raised, or
\* the payload
jwt_decode(token, key, algorithm, clock) ==
    IF "key" \notin DOMAIN token THEN [err |-> "DecodeError"]
    ELSE IF token.alg # algorithm THEN [err |-> "InvalidAlgorithmError"]
    ELSE IF token.key # key THEN [err |-> "InvalidSignatureError"]
    ELSE IF token.exp <= clock THEN [err |-> "ExpiredSignatureError"]
    ELSE [err |-> "ok", payload |-> [f \in DOMAIN token \ {"key", "alg"} |-> token[f]]]

\* AuthService.verify_token: every PyJWTError becomes the same HTTPException
verify_token_result(token, clock) ==
    LET d == jwt_decode(token, SecretKey, ALGORITHM, clock)
    IN IF d.err # "ok"
       THEN [err |-> "Unauthorized", ret |-> Http401("Invalid authentication credentials")]
       ELSE [err |-> "ok", ret |-> d.payload]

get_current_user_result_NeedsRefreshToken(U, token, clock) ==
    LET v == verify_token_result(token, clock)
    IN IF v.err # "ok" \/ "sub" \notin DOMAIN v.ret
       THEN [err |-> "Unauthorized", ret |-> Http401("Invalid authentication credentials")]
       ELSE LET user == get_by_username(U, v.ret.sub)
            IN IF \/ user = None
                  \/ ~\E t \in TokenValues : /\ tokens[t] # NoRow
                                              /\ tokens[t].user_id = user[1]
                                              /\ ~tokens[t].is_revoked
               THEN [err |-> "Unauthorized", ret |-> Http401("User not found")]
               ELSE [err |-> "ok", ret |-> user[1]]

\* deps.get_current_user
get_current_user_result(U, token, clock) ==
    LET v == verify_token_result(token, clock)
    IN IF v.err # "ok" \/ "sub" \notin DOMAIN v.ret
       THEN [err |-> "Unauthorized", ret |-> Http401("Invalid authentication credentials")]
       ELSE LET user == get_by_username(U, v.ret.sub)
            IN IF user = None
               THEN [err |-> "Unauthorized", ret |-> Http401("User not found")]
               ELSE [err |-> "ok", ret |-> user[1]]

\* the bearer strings a client can present: the tokens it was given, the
\* same claims signed with another key or under another algorithm, a claim
\* set without subject under the configured signature, and a malformed string
AccessTokenInputs ==
    issued
    \cup {[t EXCEPT !.key = "other_key"] : t \in issued}
    \cup {[t EXCEPT !.alg = "none"] : t \in issued}
    \cup {[exp |-> t.exp, key |-> t.key, alg |-> t.alg] : t \in issued}
    \cup {Garbage}

\* routers/auth_router.register (the router main.py mounts) with
\* AuthService.register_user and BaseRepository.create.  A body that fails
\* UserCreateMinimal is answered 422 before the handler runs; an INSERT that
\* breaks a unique constraint raises IntegrityError, run_in_transaction rolls
\* back and the middleware answers with the database error.
register(username, email, password, salt) ==
    /\ Step
    /\ next_user_id \in UserIds
    /\ LET args == [username |-> username, email |-> email, password |-> password]
           valid == validate_username(username)
       IN IF valid = None
          THEN /\ res' = Call("register", args, "Validation", None)
               /\ UNCHANGED <<users, next_user_id>>
          ELSE IF get_by_username(users, valid[1]) # None
          THEN /\ res' = Call("register", args, "AlreadyExists", None)
               /\ UNCHANGED <<users, next_user_id>>
          ELSE LET new_user == [username |-> valid[1], email |-> email,
                                hashed_password |-> hash_password(password, salt)]
               IN IF violates_unique(users, new_user)
                  THEN /\ res' = Call("register", args, "Database", None)
                       /\ UNCHANGED <<users, next_user_id>>
                  ELSE /\ users' = [users EXCEPT ![next_user_id] = new_user]
                       /\ next_user_id' = next_user_id + 1
                       /\ res' = Call("register", args, "ok", Some(next_user_id))
    /\ UNCHANGED <<tokens, next_token, now, revoked_hist, revoked_all_hist, issued,
                   link_vars, log>>

\* the tasks that are inside register, between its SELECT and its INSERT
registering == {p \in Tasks : calls[p].pc = "register"}

\* routers/auth_router.register up to the call of register_user: the lookup
\* by username runs in a session of its own
register_check(p, username, email, password, salt) ==
    /\ Step
    /\ calls[p] = Idle
    /\ next_user_id + Cardinality(registering) \in UserIds
    /\ LET args == [username |-> username, email |-> email, password |-> password]
           valid == validate_username(username)
       IN IF valid = None
          THEN /\ res' = Call("register", args, "Validation", None)
               /\ UNCHANGED calls
          ELSE IF get_by_username(users, valid[1]) # None
          THEN /\ res' = Call("register", args, "AlreadyExists", None)
               /\ UNCHANGED calls
          ELSE /\ calls' = [calls EXCEPT ![p] =
                              [pc |-> "register", args |-> args,
                               new_user |-> [username |-> valid[1], email |-> email,
                                             hashed_password |-> hash_password(password, salt)]]]
               /\ UNCHANGED res
    /\ UNCHANGED <<users, next_user_id, tokens, next_token, now, revoked_hist,
                   revoked_all_hist, issued, links, next_link_id, tx, log>>

\* AuthService.register_user + BaseRepository.create: the INSERT in
\* run_in_transaction; the unique indexes of users decide it
register_insert(p) ==
    /\ calls[p].pc = "register"
    /\ LET c == calls[p]
       IN IF violates_unique(users, c.new_user)
          THEN /\ res' = Call("register", c.args, "Database", None)
               /\ UNCHANGED <<users, next_user_id>>
          ELSE /\ users' = [users EXCEPT ![next_user_id] = c.new_user]
               /\ next_user_id' = next_user_id + 1
               /\ res' = Call("register", c.args, "ok", Some(next_user_id))
    /\ calls' = [calls EXCEPT ![p] = Idle]
    /\ UNCHANGED <<nops, tokens, next_token, now, revoked_hist, revoked_all_hist, issued,
                   links, next_link_id, tx, log>>

\* AuthService.authenticate_user: the user, or None when it raises
\* InvalidCredentialsException
authenticate_user(U, email, password) ==
    LET user == get_by_email(U, email)
    IN IF user = None \/ ~verify_password(password, U[user[1]].hashed_password)
       THEN None ELSE user

\* routers/auth_router.login (the router main.py mounts): form_data.username
\* is looked up as an email; the answer carries the access token only
login(identifier, password) ==
    /\ Step
    /\ LET args == [identifier |-> identifier, password |-> password]
           user == authenticate_user(users, identifier, password)
       IN IF user = None
          THEN /\ res' = Call("login", args, "InvalidCredentials", None)
               /\ UNCHANGED issued
          ELSE LET access_token == create_access_token([sub |-> users[user[1]].username], now)
               IN /\ res' = Call("login", args, "ok",
                                 [access_token |-> access_token, token_type |-> "bearer"])
                  /\ issued' = issued \cup {access_token}
    /\ UNCHANGED <<users, tokens, next_token, now, revoked_hist, revoked_all_hist,
                   next_user_id, link_vars, log>>

\* AuthService.verify_token
verify_token(token) ==
    /\ Step
    /\ LET r == verify_token_result(token, now)
       IN res' = Call("verify_token", [token |-> token], r.err, r.ret)
    /\ UNCHANGED <<auth_vars, link_vars, log>>

\* deps.get_current_user
get_current_user(token) ==
    /\ Step
    /\ LET r == get_current_user_result(users, token, now)
       IN res' = Call("get_current_user", [token |-> token], r.err, r.ret)
    /\ UNCHANGED <<auth_vars, link_vars, log>>

----------------------------------------------------------------------------
(* The boundary: catch_exceptions_middleware *)

\* what str(exc) can be; one text is internal detail
ExcTexts == {"boom", "dsn=postgres://app:pw@db"}

\* the exceptions call_next can raise: application exceptions (status code
\* and detail), store errors and everything else (class and text).
\* Strings built with f"..." are sequences of their parts.
AppExceptions ==
    {[cls |-> "BaseAppException", status_code |-> 404, text |-> "Resource not found"],
     [cls |-> "BaseAppException", status_code |-> 403, text |-> "Permission denied"]}
StoreErrors == {[cls |-> "SQLAlchemyError", status_code |-> NoArg, text |-> t] : t \in ExcTexts}
OtherExceptions == {[cls |-> "Exception", status_code |-> NoArg, text |-> t] : t \in ExcTexts}
Exceptions == AppExceptions \cup StoreErrors \cup OtherExceptions

\* ErrorResponse.create(message=...) in a JSONResponse
JSONResponse(status_code, message) ==
    [status_code |-> status_code,
     content |-> [status |-> "error", message |-> message, data |-> None]]

\* catch_exceptions_middleware: the except clause taken for exc, as the
\* records it logs and the response it returns
handle_exception(exc) ==
    IF exc.cls = "BaseAppException"
    THEN [logged |-> <<[level |-> "warning",
                        msg |-> <<"Handled error: ", exc.cls, ". Details: ", exc.text>>]>>,
          response |-> JSONResponse(exc.status_code, <<exc.text>>)]
    ELSE IF exc.cls = "SQLAlchemyError"
    THEN [logged |-> <<[level |-> "error", msg |-> <<"Database error: ", exc.text>>]>>,
          response |-> JSONResponse(500, <<"A database error occurred. Please try again later.">>)]
    ELSE LET error_detail == <<"Unexpected error: ", exc.text>>
         IN [logged |-> <<[level |-> "error", msg |-> error_detail]>>,
             response |-> JSONResponse(500, error_detail)]

\* catch_exceptions_middleware around a request whose handler raises exc
catch_exceptions_middleware(exc) ==
    /\ Step
    /\ LET h == handle_exception(exc)
       IN /\ log' = log \o h.logged
          /\ res' = Call("request", [exc |-> exc], exc.cls, h.response)
    /\ UNCHANGED <<auth_vars, link_vars>>

\* catch_exceptions_middleware around a request whose handler returns:
\* `return await call_next(request)`
call_next_returns ==
    /\ Step
    /\ res' = Call("request", [exc |-> [cls |-> "none", status_code |-> NoArg, text |-> ""]],
                   "ok", [status_code |-> 200])
    /\ UNCHANGED <<auth_vars, link_vars, log>>

----------------------------------------------------------------------------
(* Specifications *)

InitUsers ==
    [u \in UserIds |-> [username |-> Username(u), email |-> Email(u),
                        hashed_password |-> hash_password("pw1", "salt1")]]

Init ==
    /\ users = InitUsers
    /\ links = [l \in LinkIds |-> NoRow]
    /\ next_link_id = 1
    /\ tokens = [t \in TokenValues |-> NoRow]
    /\ next_token = 1
    /\ now = 0
    /\ res = Res("init", NoArg, NoArg, None, NoArg, "ok", None)
    /\ nops = 0
    /\ revoked_hist = {}
    /\ revoked_all_hist = {}
    /\ next_user_id = Cardinality(UserIds) + 1
    /\ issued = {}
    /\ tx = NoTx
    /\ log = <<>>
    /\ calls = [p \in Tasks |-> Idle]

LinkNext ==
    \/ \E u \in UserIds, t \in CreateTitles, a \in {None, Some(TRUE), Some(FALSE)} :
          create_link(u, t, a)
    \/ \E l \in LinkInputs(next_link_id), u \in UserIds, p \in PatchInputs : update_link(l, u, p)
    \/ \E l \in LinkInputs(next_link_id), u \in UserIds : delete_link(l, u)
    \/ \E l \in LinkInputs(next_link_id), u \in UserIds : toggle_link_status(l, u)
    \/ \E u \in UserIds, ids \in ReorderInputs[next_link_id] : reorder_links(u, ids)
    \/ \E l \in LinkInputs(next_link_id) : increment_click_count(l)
    \/ \E u \in UserIds, b \in BOOLEAN : get_user_links(u, b)
    \/ \E u \in UserIds : get_user_analytics(u)

LinkSpec == Init /\ [][LinkNext]_vars

\* updates with every request body, between creations and clicks
UpdateNext ==
    \/ \E u \in UserIds, t \in CreateTitles, a \in {None, Some(FALSE)} : create_link(u, t, a)
    \/ \E l \in LinkInputs(next_link_id), u \in UserIds, p \in Patches : update_link(l, u, p)
    \/ \E l \in LinkInputs(next_link_id) : increment_click_count(l)

UpdateSpec == Init /\ [][UpdateNext]_vars

\* requests served concurrently with a reorder whose steps interleave with
\* them; a DELETE of a row the open transaction has written waits for its end
ReorderNext ==
    \/ \E u \in UserIds, t \in CreateTitles : create_link(u, t, None)
    \/ \E l \in LinkInputs(next_link_id), u \in UserIds : ~RowLocked(l) /\ delete_link(l, u)
    \/ \E u \in UserIds : get_user_links(u, TRUE)
    \/ \E u \in UserIds, ids \in ReorderInputs[next_link_id] : reorder_check(u, ids)
    \/ reorder_write
    \/ reorder_commit
    \/ reorder_rollback
    \/ reorder_return

ReorderSpec == Init /\ [][ReorderNext]_vars

\* create and click requests of two tasks whose store interactions
\* interleave, with whole delete requests between them
RaceNext ==
    \/ \E p \in Tasks, u \in UserIds, t \in CreateTitles : create_read(p, u, t)
    \/ \E p \in Tasks : create_insert(p)
    \/ \E p \in Tasks, l \in LinkInputs(next_link_id) : click_read(p, l)
    \/ \E p \in Tasks : click_write(p)
    \/ \E l \in LinkInputs(next_link_id), u \in UserIds : delete_link(l, u)

RaceSpec == Init /\ [][RaceNext]_vars

AuthNext ==
    \/ \E u \in UserIds : create_tokens(u)
    \/ \E v \in TokenInputs : refresh_access_token(v)
    \/ \E v \in TokenInputs : revoke_refresh_token(v)
    \/ \E u \in UserIds : revoke_all_user_tokens(u)
    \/ \E u \in UserIds, c \in BOOLEAN : delete_user(u, c)
    \/ \E d \in TickSteps : Tick(d)

AuthSpec == Init /\ [][AuthNext]_vars

\* the refresh-token operations together with requests that present an
\* access token
SessionNext ==
    \/ \E u \in UserIds : create_tokens(u)
    \/ \E v \in TokenInputs : refresh_access_token(v)
    \/ \E v \in TokenInputs : revoke_refresh_token(v)
    \/ \E u \in UserIds : revoke_all_user_tokens(u)
    \/ \E t \in AccessTokenInputs : get_current_user(t)
    \/ \E u \in UserIds, c \in BOOLEAN : delete_user(u, c)
    \/ \E d \in TickSteps : Tick(d)

SessionSpec == Init /\ [][SessionNext]_vars

\* refreshes of two tasks whose store interactions interleave with whole
\* revocations, user deletions and the passing of time
RefreshNext ==
    \/ \E u \in UserIds : create_tokens(u)
    \/ \E p \in Tasks, v \in TokenInputs : refresh_lookup(p, v)
    \/ \E p \in Tasks : refresh_issue(p)
    \/ \E v \in TokenInputs : revoke_refresh_token(v)
    \/ \E u \in UserIds : revoke_all_user_tokens(u)
    \/ \E u \in UserIds, c \in BOOLEAN : delete_user(u, c)
    \/ \E d \in TickSteps : Tick(d)

RefreshSpec == Init /\ [][RefreshNext]_vars

BoundaryNext ==
    \/ \E exc \in Exceptions : catch_exceptions_middleware(exc)
    \/ call_next_returns

BoundarySpec == Init /\ [][BoundaryNext]_vars

\* the account endpoints start from an empty users table
AccountInit ==
    /\ users = [u \in UserIds |-> NoRow]
    /\ next_user_id = 1
    /\ links = [l \in LinkIds |-> NoRow]
    /\ next_link_id = 1
    /\ tokens = [t \in TokenValues |-> NoRow]
    /\ next_token = 1
    /\ now = 0
    /\ res = Call("init", None, "ok", None)
    /\ nops = 0
    /\ revoked_hist = {}
    /\ revoked_all_hist = {}
    /\ issued = {}
    /\ tx = NoTx
    /\ log = <<>>
    /\ calls = [p \in Tasks |-> Idle]

AccountNext ==
    \/ \E n \in RawUsernames, e \in RawEmails, p \in Passwords, s \in Salts : register(n, e, p, s)
    \/ \E e \in RawEmails, p \in Passwords : login(e, p)
    \/ \E t \in AccessTokenInputs : verify_token(t)
    \/ \E t \in AccessTokenInputs : get_current_user(t)
    \/ \E u \in UserIds, c \in BOOLEAN : delete_user(u, c)
    \/ \E d \in TickSteps : Tick(d)

AccountSpec == AccountInit /\ [][AccountNext]_vars

\* registrations of two tasks whose lookup and INSERT interleave, and logins
RegisterNext ==
    \/ \E p \in Tasks, n \in RawUsernames, e \in RawEmails, pw \in Passwords, s \in Salts :
          register_check(p, n, e, pw, s)
    \/ \E p \in Tasks : register_insert(p)
    \/ \E e \in RawEmails, pw \in Passwords : login(e, pw)

RegisterSpec == AccountInit /\ [][RegisterNext]_vars

----------------------------------------------------------------------------
(* Properties *)

\* the user's current non-deleted links, active and inactive
OwnLinks(u) ==
    {l \in LinkIds : links[l] # NoRow /\ links[l].user_id = u /\ ~links[l].is_deleted}

\* C1: update, delete and toggleActive of a link by a requester who is not
\* its owner fail with PermissionDenied and leave the whole link table as it
\* was.
C1_ForeignMutationDenied ==
    [][LET l == res'.link
           u == res'.user
       IN ( /\ res'.op \in {"update_link", "delete_link", "toggle_link_status"}
            /\ links[l] # NoRow /\ links[l].user_id # u )
          => (res'.err = "PermissionDenied" /\ links' = links)]_vars

C1_Witness ==
    /\ res.op \in {"update_link", "delete_link", "toggle_link_status"}
    /\ res.err = "PermissionDenied"
    /\ links[res.link] # NoRow
    /\ links[res.link].user_id # res.user

\* C2: once revoke(R) has completed every later refreshAccess(R) fails with
\* Unauthorized; revoke never raises, and on a value that is absent or
\* already revoked it leaves the token table as it was.
C2_RevokedStaysRejected ==
    [][/\ (res'.op = "refresh_access_token" /\ res'.token \in revoked_hist)
          => res'.err = "Unauthorized"
       /\ \A v \in TokenInputs :
            (res'.op = "revoke_refresh_token" /\ res'.token = v)
            => /\ res'.err = "ok"
               /\ (v \notin TokenValues \/ tokens[v] = NoRow \/ tokens[v].is_revoked)
                  => tokens' = tokens
               /\ (v \in TokenValues /\ tokens[v] # NoRow) => tokens'[v].is_revoked]_vars

C2_Witness ==
    /\ res.op = "refresh_access_token"
    /\ res.token \in revoked_hist
    /\ res.token \in TokenValues
    /\ tokens[res.token] # NoRow
    /\ tokens[res.token].expires_at > now
    /\ users[tokens[res.token].user_id] # NoRow
    /\ res.err = "Unauthorized"

\* C3: revokeAll(u) marks every refresh token of u revoked and changes no
\* token of another user; every token u had at the call is rejected by
\* refreshAccess from then on.
C3_RevokeAllScope ==
    [][/\ \A u \in UserIds :
            (res'.op = "revoke_all_user_tokens" /\ res'.user = u)
            => \A t \in TokenValues :
                  IF tokens[t] # NoRow /\ tokens[t].user_id = u
                  THEN tokens'[t] = [tokens[t] EXCEPT !.is_revoked = TRUE]
                  ELSE tokens'[t] = tokens[t]
       /\ (res'.op = "refresh_access_token" /\ res'.token \in revoked_all_hist)
          => res'.err = "Unauthorized"]_vars

C3_Witness ==
    /\ res.op = "revoke_all_user_tokens"
    /\ \E t1, t2 \in TokenValues :
          /\ tokens[t1] # NoRow /\ tokens[t1].user_id = res.user /\ tokens[t1].is_revoked
          /\ tokens[t2] # NoRow /\ tokens[t2].user_id # res.user /\ ~tokens[t2].is_revoked

\* C4: reorder(u, ids) with ids a permutation of all of u's non-deleted link
\* ids succeeds; afterwards the listing of u (inactive included) is exactly
\* ids and the link at position p (counted from 1) has order_index p.
C4_ReorderPermutation ==
    [][LET u == res'.user
           ids == res'.ids
       IN ( /\ res'.op = "reorder_links"
            /\ {ids[i] : i \in 1..Len(ids)} = OwnLinks(u) )
          => /\ res'.err = "ok"
             /\ res'.ret = ids
             /\ get_links_by_user(links', u, TRUE) = {ids}
             /\ \A p \in 1..Len(ids) : links'[ids[p]].order_index = p]_vars

C4_Witness ==
    /\ res.op = "reorder_links"
    /\ res.err = "ok"
    /\ res.ids = <<3, 1, 2>>
    /\ \E l \in LinkIds : ~links[l].is_active

\* C5: reorder(u, ids) whose id set differs from the set of u's non-deleted
\* link ids fails with PermissionDenied and changes no link.
C5_ReorderMismatchDenied ==
    [][LET u == res'.user
           ids == res'.ids
       IN ( /\ res'.op = "reorder_links"
            /\ {ids[i] : i \in 1..Len(ids)} # OwnLinks(u) )
          => (res'.err = "PermissionDenied" /\ links' = links)]_vars

C5_Witness ==
    /\ res.op = "reorder_links"
    /\ res.err = "PermissionDenied"
    /\ OwnLinks(res.user) # {}
    /\ {res.ids[i] : i \in 1..Len(res.ids)} \subseteq OwnLinks(res.user)

\* C6 (as claimed): create(u) for a user with N non-deleted links adds one
\* link whose order_index is N + 1, also after deletes and reorders.
C6_CreateAppendsAtCountPlusOne ==
    [][res'.op = "create_link"
          => links'[res'.ret].order_index = Cardinality(OwnLinks(res'.user)) + 1]_vars

\* the order_index values of the user's non-deleted links
OwnOrders(u) == {links[l].order_index : l \in OwnLinks(u)}

\* C6 (amended): create(u) adds one link, and only that link, whose
\* order_index is one more than the largest order_index among u's non-deleted
\* links (1 when u has none); it is N + 1 whenever those links hold exactly
\* the indices 1..N.
C6_CreateAppendsAfterMax ==
    [][LET u == res'.user
           new == res'.ret
       IN res'.op = "create_link"
          => /\ res'.err = "ok"
             /\ links[new] = NoRow
             /\ links'[new].user_id = u
             /\ \A l \in LinkIds \ {new} : links'[l] = links[l]
             /\ \A l \in OwnLinks(u) : links[l].order_index < links'[new].order_index
             /\ \/ links'[new].order_index = 1 /\ OwnLinks(u) = {}
                \/ links'[new].order_index - 1 \in OwnOrders(u)
             /\ OwnOrders(u) = 1..Cardinality(OwnLinks(u))
                => links'[new].order_index = Cardinality(OwnLinks(u)) + 1]_vars

C6_Witness ==
    /\ res.op = "create_link"
    /\ res.err = "ok"
    /\ links[res.ret].order_index = 3
    /\ Cardinality(OwnLinks(res.user)) = 2

RefreshTokenUsable(v) ==
    /\ v \in TokenValues
    /\ tokens[v] # NoRow
    /\ ~tokens[v].is_revoked
    /\ tokens[v].expires_at > now
    /\ users[tokens[v].user_id] # NoRow

\* C8: refreshAccess(v) returns an access token exactly when a record with
\* value v exists, is not revoked, expires strictly after now and its owner
\* exists; otherwise it fails with Unauthorized.
C8_RefreshIffUsable ==
    [][\A v \in TokenInputs :
          (res'.op = "refresh_access_token" /\ res'.token = v)
          => IF RefreshTokenUsable(v)
             THEN /\ res'.err = "ok"
                  /\ res'.ret # None
                  /\ res'.ret[1].sub = users[tokens[v].user_id].username
             ELSE /\ res'.err = "Unauthorized"
                  /\ res'.ret = None]_vars

C8_Witness ==
    /\ res.op = "refresh_access_token"
    /\ res.err = "Unauthorized"
    /\ res.token \in TokenValues
    /\ tokens[res.token] # NoRow
    /\ ~tokens[res.token].is_revoked
    /\ tokens[res.token].expires_at = now
    /\ users[tokens[res.token].user_id] # NoRow

\* C9: refreshAccess does not rotate: it leaves the token table as it was,
\* and after a successful refreshAccess(R) the same R is still usable.
C9_RefreshDoesNotRotate ==
    [][\A v \in TokenInputs :
          (res'.op = "refresh_access_token" /\ res'.token = v)
          => /\ tokens' = tokens
             /\ next_token' = next_token
             /\ res'.err = "ok" => refresh_result(tokens', users', v, now').err = "ok"]_vars

C9_Witness ==
    /\ res.op = "refresh_access_token"
    /\ res.err = "ok"
    /\ nops >= 3

\* C10: issueTokens(user) returns an access token whose subject is the user's
\* username and persists exactly one new refresh token owned by the user, not
\* revoked, expiring 7 days after now; refreshAccess of the returned value
\* yields an access token with the same subject.
C10_IssueTokens ==
    [][\A u \in UserIds :
          (res'.op = "create_tokens" /\ res'.user = u)
          => LET value == res'.ret.refresh_token
             IN /\ res'.err = "ok"
                /\ res'.ret.access_token.sub = users[u].username
                /\ tokens[value] = NoRow
                /\ tokens'[value] = [user_id |-> u,
                                     expires_at |-> now + 7 * 24 * 60,
                                     is_revoked |-> FALSE]
                /\ \A t \in TokenValues \ {value} : tokens'[t] = tokens[t]
                /\ refresh_result(tokens', users', value, now').err = "ok"
                /\ refresh_result(tokens', users', value, now').ret[1].sub = users[u].username]_vars

C10_Witness ==
    /\ res.op = "create_tokens"
    /\ res.err = "ok"
    /\ res.user = 2
    /\ now > 0

\* C11: a registration request that passes validation and whose username
\* equals, ignoring letter case, the username of a user registered before it,
\* or whose email equals that user's email, fails with AlreadyExists and
\* creates no user record.
C11_DuplicateRegistrationRejected ==
    [][LET a == res'.args
       IN ( /\ res'.op = "register"
            /\ validate_username(a.username) # None
            /\ \E u \in UserIds :
                  /\ users[u] # NoRow
                  /\ \/ lower(users[u].username) = lower(a.username)
                     \/ users[u].email = a.email )
          => (res'.err = "AlreadyExists" /\ users' = users)]_vars

\* C12: delete(l, owner) is a soft delete: afterwards the row of l is still
\* in the table with its deleted flag set, and l is in no listing of the
\* owner, hence in neither the analytics nor the id set reorder expects.
C12_DeleteIsSoft ==
    [][LET l == res'.link
           u == res'.user
       IN (res'.op = "delete_link" /\ res'.err = "ok")
          => /\ links'[l] # NoRow
             /\ links'[l].is_deleted
             /\ l \notin LinkRowsOfUser(links', u, TRUE)
             /\ l \notin LinkRowsOfUser(links', u, FALSE)]_vars

\* C13: listForUser(u, includeInactive) returns, each once, exactly the
\* links owned by u that are not deleted (and active, when includeInactive is
\* false), in ascending order_index order, and changes nothing.
C13_ListForUser ==
    [][res'.op = "get_user_links"
          => LET u == res'.args.user_id
                 s == res'.ret
                 expected == {l \in LinkIds : /\ links[l] # NoRow
                                               /\ links[l].user_id = u
                                               /\ ~links[l].is_deleted
                                               /\ (res'.args.include_inactive \/ links[l].is_active)}
             IN /\ res'.err = "ok"
                /\ {s[i] : i \in 1..Len(s)} = expected
                /\ Len(s) = Cardinality(expected)
                /\ \A i \in 1..(Len(s) - 1) :
                      links[s[i]].order_index <= links[s[i + 1]].order_index
                /\ links' = links]_vars

C13_Witness ==
    /\ res.op = "get_user_links"
    /\ ~res.args.include_inactive
    /\ res.ret = <<2>>
    /\ links[1] # NoRow /\ links[1].user_id = res.args.user_id /\ ~links[1].is_active
    /\ links[3] # NoRow /\ links[3].user_id # res.args.user_id

\* sum of click_count over a set of links
RECURSIVE ClicksOf(_)
ClicksOf(S) ==
    IF S = {} THEN 0
    ELSE LET l == CHOOSE x \in S : TRUE
         IN links[l].click_count + ClicksOf(S \ {l})

\* C14: analytics(u) reports total_links = number of u's non-deleted links,
\* active_links = number of those that are active, total_clicks = the sum of
\* their click_count, and lists each of them once, by click_count descending,
\* links of equal click_count in ascending order_index order.
C14_Analytics ==
    [][res'.op = "get_user_analytics"
          => LET u == res'.args.user_id
                 r == res'.ret
                 own == OwnLinks(u)
             IN /\ res'.err = "ok"
                /\ r.total_links = Cardinality(own)
                /\ r.active_links = Cardinality({l \in own : links[l].is_active})
                /\ r.total_clicks = ClicksOf(own)
                /\ Len(r.links) = Cardinality(own)
                /\ {r.links[i].id : i \in 1..Len(r.links)} = own
                /\ \A i \in 1..Len(r.links) :
                      r.links[i].click_count = links[r.links[i].id].click_count
                /\ \A i, j \in 1..Len(r.links) :
                      i < j => \/ r.links[i].click_count > r.links[j].click_count
                               \/ /\ r.links[i].click_count = r.links[j].click_count
                                  /\ links[r.links[i].id].order_index
                                        < links[r.links[j].id].order_index
                /\ links' = links]_vars

C14_Witness ==
    /\ res.op = "get_user_analytics"
    /\ res.ret.total_links = 2
    /\ res.ret.links[1].id = 2
    /\ res.ret.links[1].click_count = res.ret.links[2].click_count

\* C15: login(identifier, password) succeeds exactly when a user whose email
\* is identifier exists and the password matches its stored hash; on success
\* it returns an access token and a newly persisted refresh token; otherwise
\* it fails with InvalidCredentials and creates no refresh token.
C15_LoginIssuesBothTokens ==
    [][res'.op = "login"
          => LET a == res'.args
                 matching == {u \in UserIds : /\ users[u] # NoRow
                                               /\ users[u].email = a.identifier
                                               /\ verify_password(a.password, users[u].hashed_password)}
             IN IF matching # {}
                THEN /\ res'.err = "ok"
                     /\ "access_token" \in DOMAIN res'.ret
                     /\ "refresh_token" \in DOMAIN res'.ret
                     /\ \E t \in TokenValues : tokens[t] = NoRow /\ tokens'[t] # NoRow
                ELSE /\ res'.err = "InvalidCredentials"
                     /\ tokens' = tokens]_vars

\* C16: verifyAccessToken(t) returns the claims of t exactly when t carries
\* the configured key and algorithm and its exp is later than now; every
\* other token gets one and the same 401 with no cause in it; get_current_user
\* returns the user named by the subject of a verified token and answers 401
\* when the token is not verified, has no subject or names no existing user.
C16_VerifyAccessToken ==
    [][LET t == res'.args.token
           verified == /\ "key" \in DOMAIN t
                       /\ t.key = SecretKey
                       /\ t.alg = ALGORITHM
                       /\ t.exp > now
       IN /\ res'.op = "verify_token"
             => IF verified
                THEN /\ res'.err = "ok"
                     /\ res'.ret.exp = t.exp
                     /\ "sub" \in DOMAIN t => res'.ret.sub = t.sub
                ELSE /\ res'.err = "Unauthorized"
                     /\ res'.ret = [status_code |-> 401,
                                    detail |-> "Invalid authentication credentials"]
          /\ res'.op = "get_current_user"
             => IF /\ verified
                   /\ "sub" \in DOMAIN t
                   /\ \E u \in UserIds : users[u] # NoRow /\ users[u].username = t.sub
                THEN /\ res'.err = "ok"
                     /\ users[res'.ret].username = t.sub
                ELSE /\ res'.err = "Unauthorized"
                     /\ res'.ret.status_code = 401]_vars

C16_Witness ==
    /\ res.op = "verify_token"
    /\ res.err = "Unauthorized"
    /\ res.args.token \in issued
    /\ res.args.token.exp = now

\* C17: update, delete and toggleActive on a link id that has no row fail
\* with NotFound whoever the requester is and change nothing; they answer
\* PermissionDenied only for a link that exists.
C17_NotFoundBeforePermission ==
    [][LET l == res'.link
       IN res'.op \in {"update_link", "delete_link", "toggle_link_status"}
          => /\ links[l] = NoRow => (res'.err = "NotFound" /\ links' = links)
             /\ res'.err = "PermissionDenied" => links[l] # NoRow
             /\ res'.err = "NotFound" => links[l] = NoRow]_vars

C17_Witness ==
    /\ res.op \in {"update_link", "delete_link", "toggle_link_status"}
    /\ res.err = "NotFound"
    /\ res.link < next_link_id
    /\ \E l \in LinkIds : links[l] # NoRow /\ links[l].user_id # res.user

\* the order_index values of u's non-deleted links in the table L are
\* exactly 1..N, N the number of those links
DenseOrders(L, u) ==
    LET own == {l \in LinkIds : L[l] # NoRow /\ L[l].user_id = u /\ ~L[l].is_deleted}
    IN {L[l].order_index : l \in own} = 1..Cardinality(own)

\* C18 (as claimed): in every state reached by completed create, update,
\* toggleActive, delete, incrementClick and reorder operations run one at a
\* time, the order_index values of each user's non-deleted links are exactly
\* 1..N.
C18_OrderAlwaysDense == \A u \in UserIds : DenseOrders(links, u)

\* C18 (amended): the order_index values of a user's non-deleted links are
\* exactly 1..N after every successful reorder by that user, and every
\* operation other than a delete of one of the user's links keeps them so;
\* hence they are 1..N in every state in which the user has deleted no link
\* since the user's last reorder.
C18_DenseUnlessDeleted ==
    [][\A u \in UserIds :
          /\ (res'.op = "reorder_links" /\ res'.err = "ok" /\ res'.user = u)
             => DenseOrders(links', u)
          /\ ( /\ DenseOrders(links, u)
               /\ ~(res'.op = "delete_link" /\ res'.err = "ok" /\ res'.user = u) )
             => DenseOrders(links', u)]_vars

C18_Witness ==
    /\ res.op = "reorder_links"
    /\ res.err = "ok"
    /\ res.ids = <<2>>
    /\ links[1] = NoRow
    /\ links[2].order_index = 1

\* C19: reorder applies its order_index rewrites as one unit.  A listing read
\* while the reorder is in flight finds, on the links of the request, either
\* all the order_index values the reorder started from or all the new ones;
\* the commit gives every link of the request that is still there its new
\* position at once; a failure before the end leaves every order_index as it
\* was.
C19_ReorderAllOrNothing ==
    [][/\ (res'.op = "get_user_links" /\ tx.pc # "idle")
          => LET there == {l \in SeqToSet(tx.ids) : links[l] # NoRow}
             IN \/ \A l \in there : links[l].order_index = tx.user_links[l]
                \/ \A l \in there : /\ links[l].order_index \in 1..Len(tx.ids)
                                     /\ tx.ids[links[l].order_index] = l
       /\ (tx.pc = "writing" /\ tx'.pc = "committed")
          => \A p \in 1..Len(tx.ids) :
                links'[tx.ids[p]] # NoRow => links'[tx.ids[p]].order_index = p
       /\ (tx.pc = "writing" /\ tx'.pc = "idle")
          => /\ res'.err = "Database"
             /\ links' = links
             /\ \A l \in SeqToSet(tx.ids) :
                   links'[l] # NoRow => links'[l].order_index = tx.user_links[l]]_vars

C19_Witness ==
    /\ res.op = "get_user_links"
    /\ tx.pc = "writing"
    /\ tx.ids = <<2, 1>>
    /\ tx.i = 2
    /\ res.args.user_id = tx.user_id
    /\ res.ret = <<1, 2>>

\* C20: an exception that is neither an application exception nor a store
\* error is answered with status 500 and a message that holds nothing of the
\* exception's text and is the same as for the previous such exception.
C20_UnclassifiedIsOpaque ==
    [][(res'.op = "request" /\ res'.err = "Exception")
          => LET message == res'.ret.content.message
             IN /\ res'.ret.status_code = 500
                /\ \A i \in 1..Len(message) : message[i] # res'.args.exc.text
                /\ (res.op = "request" /\ res.err = "Exception") => res'.ret = res.ret]_vars

\* C21: a refresh token never leaves the revoked or the expired state: while
\* its record exists a revocation is never undone and its expires_at and
\* owner never change, time only moves forward, and a token that the lookup
\* rejects is rejected by every later refreshAccess.
C21_RevokedAndExpiredAreTerminal ==
    [][/\ now' >= now
       /\ \A t \in TokenValues :
            /\ (tokens[t] # NoRow /\ tokens'[t] # NoRow)
               => /\ tokens[t].is_revoked => tokens'[t].is_revoked
                  /\ tokens'[t].expires_at = tokens[t].expires_at
                  /\ tokens'[t].user_id = tokens[t].user_id
            /\ (tokens[t] # NoRow /\ get_valid_token(tokens, t, now) = None)
               => /\ get_valid_token(tokens', t, now') = None
                  /\ (res'.op = "refresh_access_token" /\ res'.token = t)
                     => (res'.err = "Unauthorized" /\ res'.ret = None)]_vars

C21_Witness ==
    /\ res.op = "refresh_access_token"
    /\ res.err = "Unauthorized"
    /\ res.token \in TokenValues
    /\ tokens[res.token] # NoRow
    /\ tokens[res.token].is_revoked
    /\ now > 0
    /\ users[tokens[res.token].user_id] # NoRow

DuplicateOrder(L, u) ==
    \E k, l \in LinkIds :
        /\ k # l
        /\ L[k] # NoRow /\ L[l] # NoRow
        /\ L[k].user_id = u /\ L[l].user_id = u
        /\ ~L[k].is_deleted /\ ~L[l].is_deleted
        /\ L[k].order_index = L[l].order_index

\* C24: the INSERT of a create is never rejected: it stores the link with the
\* order_index the task computed from its earlier read of max(order_index),
\* also when another create of the same user has inserted a link with that
\* order_index in between; the two links then share it.
C24_StaleInsertAccepted ==
    [][\A p \in Tasks :
          (calls[p].pc = "create_link" /\ calls'[p] = Idle)
          => LET u == calls[p].user_id
                 o == calls[p].order_index
             IN /\ res'.op = "create_link" /\ res'.err = "ok"
                /\ links'[res'.ret] # NoRow
                /\ links'[res'.ret].user_id = u
                /\ links'[res'.ret].order_index = o
                /\ \A l \in LinkIds \ {res'.ret} : links'[l] = links[l]
                /\ (\E l \in LinkIds : /\ links[l] # NoRow /\ links[l].user_id = u
                                       /\ links[l].order_index = o)
                   => DuplicateOrder(links', u)]_vars

\* two creates of one user both read the maximum before either inserted
C24_Witness ==
    /\ res.op = "create_link"
    /\ res.err = "ok"
    /\ DuplicateOrder(links, res.user)
    /\ \A p \in Tasks : calls[p] = Idle
    /\ nops = 2

\* no two user records share a username or an email
UniqueUsers(U) ==
    \A u, v \in UserIds :
        (u # v /\ U[u] # NoRow /\ U[v] # NoRow)
        => (U[u].username # U[v].username /\ U[u].email # U[v].email)

\* C25: whatever the interleaving of the registrations, no two user records
\* ever share a username or an email: an INSERT that would repeat the
\* username or the email of a record that is there by then creates no user
\* and its registration fails, so of the registrations with one username or
\* one email at most one creates a user.
C25_UniqueUsernameAndEmail ==
    [][/\ UniqueUsers(users')
       /\ \A p \in Tasks :
            (calls[p].pc = "register" /\ calls'[p] = Idle)
            => LET new_user == calls[p].new_user
                   taken == \E u \in UserIds :
                               /\ users[u] # NoRow
                               /\ \/ users[u].username = new_user.username
                                  \/ users[u].email = new_user.email
               IN IF taken
                  THEN users' = users /\ res'.err = "Database"
                  ELSE /\ res'.err = "ok"
                       /\ users'[res'.ret[1]] = new_user
                       /\ \A u \in UserIds \ {res'.ret[1]} : users'[u] = users[u]]_vars

\* two registrations with one username and different emails both passed the
\* lookup; the second INSERT was refused
C25_Witness ==
    /\ res.op = "register"
    /\ res.err = "Database"
    /\ nops = 2
    /\ \E u \in UserIds : /\ users[u] # NoRow
                          /\ users[u].username = lower(res.args.username)
                          /\ users[u].email # res.args.email

\* C26: when a reorder commits, the order_index values of the user's
\* non-deleted links are pairwise distinct and are exactly 1..N, also when a
\* create or a delete of one of the user's links has committed after the
\* reorder checked the id set.
C26_ReorderDenseUnderRace ==
    [][(tx.pc = "writing" /\ tx'.pc = "committed")
       => /\ DenseOrders(links', tx.user_id)
          /\ ~DuplicateOrder(links', tx.user_id)]_vars

\* C27 (as claimed): whatever the interleaving of incrementClick calls, the
\* click_count of a link never decreases, and each incrementClick that
\* returns successfully has raised it by exactly one, so that k successful
\* calls raise it by k.
C27_NoLostClick ==
    [][/\ \A l \in LinkIds :
            (links[l] # NoRow /\ links'[l] # NoRow)
            => links'[l].click_count >= links[l].click_count
       /\ \A p \in Tasks :
            ( /\ calls[p].pc = "increment_click_count" /\ calls'[p] = Idle
              /\ res'.err = "ok" )
            => links'[calls[p].link_id].click_count
                  = links[calls[p].link_id].click_count + 1]_vars

\* C28: get_current_user accepts an access token that was issued exactly
\* while its exp lies after now and a user with its subject exists, whatever
\* has happened to the refresh tokens since it was issued.
C28_AccessTokenOutlivesRevocation ==
    [][res'.op = "get_current_user"
       => LET t == res'.args.token
          IN t \in issued
             => IF /\ t.exp > now
                   /\ \E u \in UserIds : users[u] # NoRow /\ users[u].username = t.sub
                THEN /\ res'.err = "ok"
                     /\ users[res'.ret].username = t.sub
                ELSE res'.err = "Unauthorized"]_vars

\* accepted although every refresh token of its user has been revoked
C28_Witness ==
    /\ res.op = "get_current_user"
    /\ res.err = "ok"
    /\ \E v \in TokenValues : tokens[v] # NoRow /\ tokens[v].user_id = res.ret
    /\ \A v \in TokenValues :
          (tokens[v] # NoRow /\ tokens[v].user_id = res.ret) => tokens[v].is_revoked

\* C29: in every state reached by completed create, update, toggleActive,
\* delete, incrementClick and reorder calls run one at a time, no two
\* non-deleted links of one user have the same order_index, so every listing
\* of a user's links has one admissible order.
C29_DistinctOrderSequentially ==
    /\ \A u \in UserIds : ~DuplicateOrder(links, u)
    /\ \A u \in UserIds, b \in BOOLEAN : Cardinality(get_links_by_user(links, u, b)) = 1

\* three links of one user, reordered so that the newest comes first
C29_Witness ==
    /\ res.op = "reorder_links"
    /\ res.err = "ok"
    /\ Cardinality(OwnLinks(res.user)) = 3
    /\ links[3].order_index = 1

\* C30 (as claimed): a refreshAccess(R) that returns an access token returns
\* it while R is not revoked: no access token is returned once a revoke(R) or
\* a revokeAll of R's owner has committed.
C30_NoTokenAfterRevocation ==
    [][\A p \in Tasks :
          ( /\ calls[p].pc = "refresh_access_token" /\ calls'[p] = Idle
            /\ res'.err = "ok" )
          => /\ tokens[calls[p].value] # NoRow
             /\ ~tokens[calls[p].value].is_revoked]_vars

\* C30 (amended): the validity of R is decided at the lookup step alone.  A
\* lookup that runs once R is revoked, expired or absent ends the call with
\* Unauthorized; a call whose lookup found R valid returns an access token
\* for R's owner exactly when the owner still exists at its second step,
\* whether or not R has been revoked in between.
C30_ValidityDecidedAtLookup ==
    [][\A p \in Tasks :
          /\ (calls[p] = Idle /\ calls'[p] # Idle /\ calls'[p].pc = "refresh_access_token")
             => LET v == calls'[p].value
                IN /\ v \in TokenValues /\ tokens[v] # NoRow
                   /\ ~tokens[v].is_revoked
                   /\ tokens[v].expires_at > now
                   /\ calls'[p].refresh_token = tokens[v]
          /\ ( /\ res'.op = "refresh_access_token" /\ calls[p] = Idle /\ calls' = calls
               /\ nops' = nops + 1 )
             => res'.err = "Unauthorized"
          /\ (calls[p].pc = "refresh_access_token" /\ calls'[p] = Idle)
             => LET owner == calls[p].refresh_token.user_id
                IN IF users[owner] # NoRow
                   THEN /\ res'.err = "ok"
                        /\ res'.ret[1].sub = users[owner].username
                        /\ res'.ret[1].exp = now + ACCESS_TOKEN_EXPIRE_MINUTES
                   ELSE res'.err = "Unauthorized" /\ res'.ret = None]_vars

\* an access token returned for a refresh token that is revoked by then
C30_Witness ==
    /\ res.op = "refresh_access_token"
    /\ res.err = "ok"
    /\ tokens[res.token] # NoRow
    /\ tokens[res.token].is_revoked
    /\ res.token \in revoked_hist

============================================================================
